---- MODULE Spec2Model ----
(***************************************************************************)
(* Model of the Docker interception core of httptoolkit-server:            *)
(*   - docker-tunnel-proxy.ts: the tunnel container lifecycle, its network *)
(*     reconciliation, port lookup and teardown, all around one Mutex;     *)
(*   - the container replacer (restartAndInjectContainer) and its env      *)
(*     codec.                                                              *)
(* Every remote engine call is a step.  Calls that are awaited one after   *)
(* another take effect in the step that issues them; calls fanned out      *)
(* under Promise.all are put in flight and complete in steps of their own. *)
(* The engine is the Docker daemon: a container name is unique, inspect of *)
(* a name fails exactly when no container has it, a container created      *)
(* without a network config is attached to the builtin bridge, and a       *)
(* container created with AutoRemove disappears when it is killed.         *)
(***************************************************************************)
EXTENDS Integers, Sequences, FiniteSets, TLC

\* Bounds of the model.
NumTasks == 2
NumPorts == 2
NumNetworks == 2
\* Proxy ports the concurrent callers of Spec use (SeqSpec uses them all).
NumContended == 1
\* Connect/disconnect calls left in flight by rejected updates, at most.
MaxLeaked == 1
\* Networks of a replaced container, at most.
MaxNetworks == 3
\* Entries of an env list or mapping put through the codec, at most.
MaxEnvEntries == 2

Tasks == 1..NumTasks
Ports == 1..NumPorts
\* The Id of the builtin bridge network, as listNetworks returns it.
DefaultBridge == 0
Networks == 0..NumNetworks
ContendedPorts == 1..NumContended
\* Desired sets of the concurrent callers: nothing, or every network but the bridge.
ContendedDesired == {{}, Networks \ {DefaultBridge}}

VARIABLES
    container,      \* engine: port -> "absent" | "created" | "running"
    attached,       \* engine: port -> networks the tunnel container is on
    imagePresent,   \* engine: the tunnel image is available locally
    mutexOwner,     \* containerMutex: the task inside runExclusive, or 0
    mutexQueue,     \* containerMutex: tasks waiting, in arrival order
    pc,             \* task -> position in its operation
    call,           \* task -> the operation it runs and its arguments
    obs,            \* task -> what the operation read and issued so far
    result,         \* task -> how its operation (for stopAll: its locked section) ended
    inflight,       \* engine calls fanned out under Promise.all, not yet settled
    nameConflict,   \* a createContainer was refused: the name was taken
    creates         \* port -> createContainer calls since the container was last absent

VARIABLES
    containerDetails,   \* replace: the snapshot inspect() returned
    interceptionType,   \* replace: "mount" | "inject"
    engineNetworks,     \* engine: names of the networks that exist
    original,           \* engine: the target, "running" | "exited" | "removed"
    newContainer,       \* engine: the clone, "none" | "created" | "running"
    newNetworks,        \* engine: <<network, endpoint config>> the clone is on
    injected,           \* engine: the archive was put into the clone
    rpc,                \* replace: position in restartAndInjectContainer
    rcalls,             \* replace: the engine calls issued, in order
    rinflight,          \* replace: connect calls under Promise.all, not settled
    removeStatus,       \* replace: how remove() settled: 0 not yet, 200, or its error status
    rfailed,            \* replace: the first engine call that failed, a tolerated remove aside
    rresult             \* replace: how the returned promise settled

replaceVars == <<containerDetails, interceptionType, engineNetworks, original,
                 newContainer, newNetworks, injected, rpc, rcalls, rinflight,
                 removeStatus, rfailed, rresult>>

tunnelVars == <<container, attached, imagePresent, mutexOwner, mutexQueue,
                pc, call, obs, result, inflight, nameConflict, creates>>

VARIABLES
    codecKind,      \* codec: what a round trip starts from, "list" | "object" | "none"
    codecInput,     \* codec: the env list or env mapping it starts from
    codecMiddle,    \* codec: what the first conversion returned
    codecOutput,    \* codec: what the conversion back returned
    cpc             \* codec: "idle" | "first" | "second" | "done" | "threw"

codecVars == <<codecKind, codecInput, codecMiddle, codecOutput, cpc>>

vars == <<tunnelVars, replaceVars, codecVars>>

\* getDockerTunnelContainerName: one name per proxy port.
getDockerTunnelContainerName(proxyPort) == proxyPort

NoCall == [op |-> "none", port |-> 0, desired |-> {}, sel |-> {}, nested |-> FALSE]
NoObs == [seen |-> "none", didCreate |-> FALSE, didStart |-> FALSE,
          reconciled |-> FALSE, current |-> {}, connects |-> {}, disconnects |-> {},
          foreign |-> FALSE,
          first |-> "none", ports |-> <<>>, port |-> 0,
          delivered |-> "none", listed |-> {}, kills |-> {}, removes |-> {},
          failed |-> {}]

(***************************************************************************)
(* containerMutex (async-mutex): runExclusive takes the lock when it is    *)
(* free, queues otherwise; release hands it to the longest waiter.         *)
(***************************************************************************)
\* Mutant: runExclusive never waits.
MutexAlwaysFree(owner) == TRUE

\* Mutant: the lock is not handed on when a locked section ends.
LockKept == mutexOwner

MutexIsFree(owner) == owner = 0

AfterReleaseOwner == IF mutexQueue = <<>> THEN 0 ELSE Head(mutexQueue)

AfterReleaseQueue == IF mutexQueue = <<>> THEN <<>> ELSE Tail(mutexQueue)

Request(t) ==
    IF MutexIsFree(mutexOwner)
    THEN mutexOwner' = t /\ UNCHANGED mutexQueue
    ELSE mutexQueue' = Append(mutexQueue, t) /\ UNCHANGED mutexOwner

Release ==
    /\ mutexOwner' = AfterReleaseOwner
    /\ mutexQueue' = AfterReleaseQueue

\* The locked section ends and the same task asks for the lock again at once.
ReleaseThenRequest(t) ==
    IF MutexIsFree(AfterReleaseOwner)
    THEN mutexOwner' = t /\ mutexQueue' = AfterReleaseQueue
    ELSE mutexOwner' = AfterReleaseOwner /\ mutexQueue' = Append(AfterReleaseQueue, t)

\* An operation ends: its promise settles with r.
Settle(t, r) ==
    /\ pc' = [pc EXCEPT ![t] = "done"]
    /\ result' = [result EXCEPT ![t] = r]

\* A locked section throws: runExclusive releases and the operation rejects.
Reject(t, r) == Release /\ Settle(t, r)

TunnelInit ==
    /\ container = [p \in Ports |-> "absent"]
    /\ attached = [p \in Ports |-> {}]
    /\ imagePresent = FALSE
    /\ mutexOwner = 0
    /\ mutexQueue = <<>>
    /\ pc = [t \in Tasks |-> "idle"]
    /\ call = [t \in Tasks |-> NoCall]
    /\ obs = [t \in Tasks |-> NoObs]
    /\ result = [t \in Tasks |-> "none"]
    /\ inflight = {}
    /\ nameConflict = FALSE
    /\ creates = [p \in Ports |-> 0]

(***************************************************************************)
(* prepareDockerTunnel                                                     *)
(***************************************************************************)
PrepareCall(t) ==
    /\ pc[t] = "idle"
    /\ pc' = [pc EXCEPT ![t] = "prep_avail"]
    /\ call' = [call EXCEPT ![t] = [NoCall EXCEPT !.op = "prepare"]]
    /\ UNCHANGED <<container, attached, imagePresent, mutexOwner, mutexQueue,
                   obs, result, inflight, nameConflict, creates>>
    /\ UNCHANGED replaceVars
    /\ UNCHANGED codecVars

PrepareAvailable(t) ==
    /\ pc[t] = "prep_avail"
    /\ \E available \in BOOLEAN :
          IF available
          THEN /\ Request(t)
               /\ pc' = [pc EXCEPT ![t] = "prep_lock"]
               /\ UNCHANGED result
          ELSE /\ Settle(t, "ok")
               /\ UNCHANGED <<mutexOwner, mutexQueue>>
    /\ UNCHANGED <<container, attached, imagePresent, call, obs, inflight,
                   nameConflict, creates>>
    /\ UNCHANGED replaceVars
    /\ UNCHANGED codecVars

\* docker.pull(...).catch(console.warn): a failed pull is logged, not thrown.
PreparePull(t) ==
    /\ pc[t] = "prep_lock"
    /\ mutexOwner = t
    /\ \E pulled \in BOOLEAN : imagePresent' = (imagePresent \/ pulled)
    /\ Reject(t, "ok")
    /\ UNCHANGED <<container, attached, call, obs, inflight, nameConflict, creates>>
    /\ UNCHANGED replaceVars
    /\ UNCHANGED codecVars

(***************************************************************************)
(* ensureDockerTunnelRunning, called directly or from updateNetworks and   *)
(* getPort (call.nested).                                                  *)
(***************************************************************************)
\* Mutant: the container is created without looking at the inspect result.
NeedsCreateAlways(inspected) == TRUE

NeedsCreate(inspected) == inspected = "absent"

\* Mutant: a container that exists is never started.
NeedsStartNever(inspected) == FALSE

NeedsStart(inspected) == inspected # "running"

EnsureCall(t, p) ==
    /\ pc[t] = "idle"
    /\ call' = [call EXCEPT ![t] = [NoCall EXCEPT !.op = "ensureRunning", !.port = p]]
    /\ Request(t)
    /\ pc' = [pc EXCEPT ![t] = "er_lock"]
    /\ UNCHANGED <<container, attached, imagePresent, obs, result, inflight,
                   nameConflict, creates>>
    /\ UNCHANGED replaceVars
    /\ UNCHANGED codecVars

\* getImage().inspect().catch(() => false), then pull when it is missing.
EnsureImage(t) ==
    /\ pc[t] = "er_lock"
    /\ mutexOwner = t
    /\ \/ /\ imagePresent
          /\ pc' = [pc EXCEPT ![t] = "er_inspect"]
          /\ UNCHANGED <<imagePresent, mutexOwner, mutexQueue, result>>
       \/ /\ ~imagePresent
          /\ imagePresent' = TRUE
          /\ pc' = [pc EXCEPT ![t] = "er_inspect"]
          /\ UNCHANGED <<mutexOwner, mutexQueue, result>>
       \/ /\ ~imagePresent
          /\ Reject(t, "pull failed")
          /\ UNCHANGED imagePresent
    /\ UNCHANGED <<container, attached, call, obs, inflight, nameConflict, creates>>
    /\ UNCHANGED replaceVars
    /\ UNCHANGED codecVars

\* getContainer(name).inspect().catch(() => undefined)
EnsureInspect(t) ==
    /\ pc[t] = "er_inspect"
    /\ LET seen == container[getDockerTunnelContainerName(call[t].port)] IN
       /\ obs' = [obs EXCEPT ![t].seen = seen]
       /\ pc' = [pc EXCEPT ![t] = IF NeedsCreate(seen) THEN "er_create" ELSE "er_start"]
    /\ UNCHANGED <<container, attached, imagePresent, mutexOwner, mutexQueue,
                   call, result, inflight, nameConflict, creates>>
    /\ UNCHANGED replaceVars
    /\ UNCHANGED codecVars

\* version(), listNetworks(), createContainer(), inspect()
EnsureCreate(t) ==
    /\ pc[t] = "er_create"
    /\ LET p == getDockerTunnelContainerName(call[t].port) IN
       \/ /\ Reject(t, "version failed")
          /\ UNCHANGED <<container, attached, obs, nameConflict, creates>>
       \/ /\ obs' = [obs EXCEPT ![t].didCreate = TRUE]
          /\ IF container[p] # "absent"
             THEN /\ nameConflict' = TRUE
                  /\ creates' = [creates EXCEPT ![p] = 2]
                  /\ Reject(t, "create failed")
                  /\ UNCHANGED <<container, attached>>
             ELSE \/ /\ container' = [container EXCEPT ![p] = "created"]
                     /\ attached' = [attached EXCEPT ![p] = {DefaultBridge}]
                     /\ creates' = [creates EXCEPT ![p] = 1]
                     /\ pc' = [pc EXCEPT ![t] = "er_start"]
                     /\ UNCHANGED <<mutexOwner, mutexQueue, result, nameConflict>>
                  \/ /\ Reject(t, "create failed")
                     /\ UNCHANGED <<container, attached, nameConflict, creates>>
    /\ UNCHANGED <<imagePresent, call, inflight>>
    /\ UNCHANGED replaceVars
    /\ UNCHANGED codecVars

\* The locked section of ensureRunning ended well: back to its caller.
EnsureReturn(t) ==
    IF ~call[t].nested
    THEN Release /\ Settle(t, "ok") /\ UNCHANGED call
    ELSE /\ call' = [call EXCEPT ![t].nested = FALSE]
         /\ UNCHANGED result
         /\ IF call[t].op = "updateNetworks"
            THEN ReleaseThenRequest(t) /\ pc' = [pc EXCEPT ![t] = "un_lock"]
            ELSE Release /\ pc' = [pc EXCEPT ![t] = "gp_reinspect"]

\* if (!container.State.Running) start()
EnsureStart(t) ==
    /\ pc[t] = "er_start"
    /\ LET p == getDockerTunnelContainerName(call[t].port)
           inspected == IF obs[t].didCreate THEN "created" ELSE obs[t].seen
       IN IF NeedsStart(inspected)
          THEN /\ obs' = [obs EXCEPT ![t].didStart = TRUE]
               /\ \/ /\ container[p] # "absent"
                     /\ container' = [container EXCEPT ![p] = "running"]
                     /\ EnsureReturn(t)
                  \/ /\ Reject(t, "start failed")
                     /\ UNCHANGED <<container, call>>
          ELSE /\ EnsureReturn(t)
               /\ UNCHANGED <<container, obs>>
    /\ UNCHANGED <<attached, imagePresent, inflight, nameConflict, creates>>
    /\ UNCHANGED replaceVars
    /\ UNCHANGED codecVars

(***************************************************************************)
(* updateDockerTunnelledNetworks                                           *)
(***************************************************************************)
\* Mutant: the default bridge is left out of the expected networks.
ExpectedWithoutBridge(interceptedNetworks) == interceptedNetworks

\* _.uniq([...interceptedNetworks, await defaultBridgeId])
ExpectedNetworks(interceptedNetworks) == interceptedNetworks \cup {DefaultBridge}

\* Mutant: every expected network is connected, attached already or not.
MissingUnfiltered(expectedNetworks, currentNetworks) == expectedNetworks

MissingNetworks(expectedNetworks, currentNetworks) ==
    {network \in expectedNetworks : network \notin currentNetworks}

ExtraNetworks(expectedNetworks, currentNetworks) ==
    {network \in currentNetworks : network \notin expectedNetworks}

FanoutCall(t, kind, p, network) ==
    [owner |-> t, kind |-> kind, port |-> p, net |-> network]

\* listNetworks() is issued here and awaited only inside the lock.
UpdateCall(t, p, interceptedNetworks) ==
    /\ pc[t] = "idle"
    /\ call' = [call EXCEPT ![t] =
                  [NoCall EXCEPT !.op = "updateNetworks", !.port = p,
                                 !.desired = interceptedNetworks]]
    /\ pc' = [pc EXCEPT ![t] = "un_inspect"]
    /\ UNCHANGED <<container, attached, imagePresent, mutexOwner, mutexQueue,
                   obs, result, inflight, nameConflict, creates>>
    /\ UNCHANGED replaceVars
    /\ UNCHANGED codecVars

\* inspect().catch(() => ensureDockerTunnelRunning(proxyPort)), outside the lock.
UpdateInspect(t) ==
    /\ pc[t] = "un_inspect"
    /\ Request(t)
    /\ IF container[getDockerTunnelContainerName(call[t].port)] # "absent"
       THEN /\ pc' = [pc EXCEPT ![t] = "un_lock"]
            /\ UNCHANGED call
       ELSE /\ pc' = [pc EXCEPT ![t] = "er_lock"]
            /\ call' = [call EXCEPT ![t].nested = TRUE]
    /\ UNCHANGED <<container, attached, imagePresent, obs, result, inflight,
                   nameConflict, creates>>
    /\ UNCHANGED replaceVars
    /\ UNCHANGED codecVars

\* Inside the lock: await inspect() of the container.
UpdateLockedInspect(t) ==
    /\ pc[t] = "un_lock"
    /\ mutexOwner = t
    /\ LET p == getDockerTunnelContainerName(call[t].port) IN
       IF container[p] = "absent"
       THEN /\ Reject(t, "inspect failed")
            /\ UNCHANGED obs
       ELSE /\ obs' = [obs EXCEPT ![t].current = attached[p],
                                  ![t].foreign = \E c \in inflight : c.port = p]
            /\ pc' = [pc EXCEPT ![t] = "un_issue"]
            /\ UNCHANGED <<mutexOwner, mutexQueue, result>>
    /\ UNCHANGED <<container, attached, imagePresent, call, inflight, nameConflict,
                   creates>>
    /\ UNCHANGED replaceVars
    /\ UNCHANGED codecVars

\* await defaultBridgeId, compute the two differences from the inspect result,
\* fan the calls out.
UpdateReconcile(t) ==
    /\ pc[t] = "un_issue"
    /\ LET p == getDockerTunnelContainerName(call[t].port) IN
       \/ /\ Reject(t, "listNetworks failed")
          /\ UNCHANGED <<obs, inflight>>
       \/ LET expectedNetworks == ExpectedNetworks(call[t].desired)
              currentNetworks == obs[t].current
              missingNetworks == MissingNetworks(expectedNetworks, currentNetworks)
              extraNetworks == ExtraNetworks(expectedNetworks, currentNetworks)
              issued == {FanoutCall(t, "connect", p, n) : n \in missingNetworks}
                        \cup {FanoutCall(t, "disconnect", p, n) : n \in extraNetworks}
          IN /\ obs' = [obs EXCEPT ![t].reconciled = TRUE,
                                   ![t].connects = missingNetworks,
                                   ![t].disconnects = extraNetworks]
             /\ inflight' = inflight \cup issued
             /\ IF issued = {}
                THEN Reject(t, "ok")
                ELSE /\ pc' = [pc EXCEPT ![t] = "un_await"]
                     /\ UNCHANGED <<mutexOwner, mutexQueue, result>>
    /\ UNCHANGED <<container, attached, imagePresent, call, nameConflict, creates>>
    /\ UNCHANGED replaceVars
    /\ UNCHANGED codecVars

\* What the engine does with a connect or a disconnect.
EngineAccepts(c) ==
    /\ container[c.port] # "absent"
    /\ IF c.kind = "connect" THEN c.net \notin attached[c.port]
                             ELSE c.net \in attached[c.port]

AttachedAfter(c) ==
    IF c.kind = "connect" THEN attached[c.port] \cup {c.net}
                          ELSE attached[c.port] \ {c.net}

\* One fanned-out connect/disconnect settles.  Promise.all resolves when the
\* last one succeeds and rejects as soon as one fails, whatever is still in
\* flight: those calls go on at the engine with nobody waiting (owner 0).
FanoutSettle(c) ==
    /\ c \in inflight
    /\ c.kind \in {"connect", "disconnect"}
    /\ \E engineOk \in BOOLEAN :
         LET ok == engineOk /\ EngineAccepts(c)
             rest == inflight \ {c}
             mine == {d \in rest : d.owner = c.owner}
             leaked == {d \in rest : d.owner = 0}
         IN /\ (c.owner # 0 /\ ~ok) => Cardinality(leaked \cup mine) <= MaxLeaked
            /\ attached' = IF ok THEN [attached EXCEPT ![c.port] = AttachedAfter(c)]
                                 ELSE attached
            /\ IF c.owner = 0
               THEN /\ inflight' = rest
                    /\ UNCHANGED <<mutexOwner, mutexQueue, pc, result>>
               ELSE IF ok
                    THEN /\ inflight' = rest
                         /\ IF mine = {}
                            THEN Reject(c.owner, "ok")
                            ELSE UNCHANGED <<mutexOwner, mutexQueue, pc, result>>
                    ELSE /\ inflight' = (rest \ mine) \cup {[d EXCEPT !.owner = 0] : d \in mine}
                         /\ Reject(c.owner, IF c.kind = "connect" THEN "connect failed"
                                                                    ELSE "disconnect failed")
    /\ UNCHANGED <<container, imagePresent, call, obs, nameConflict, creates>>
    /\ UNCHANGED replaceVars
    /\ UNCHANGED codecVars

(***************************************************************************)
(* getDockerTunnelPort                                                     *)
(***************************************************************************)
\* A string is a sequence of characters.
Digits == <<"0", "1", "2", "3", "4", "5", "6", "7", "8", "9">>
IsDigit(ch) == \E i \in 1..10 : Digits[i] = ch
DigitValue(ch) == (CHOOSE i \in 1..10 : Digits[i] = ch) - 1

\* What parseInt gives for a string that does not start with a digit.
NaN == -1

RECURSIVE DigitsValue(_, _)
DigitsValue(str, n) ==
    IF n = 0 THEN 0 ELSE DigitsValue(str, n - 1) * 10 + DigitValue(str[n])

\* parseInt(str, 10) of an unsigned string: the value of its leading digits.
parseInt(str) ==
    LET n == CHOOSE k \in 0..Len(str) :
                 /\ \A i \in 1..k : IsDigit(str[i])
                 /\ k < Len(str) => ~IsDigit(str[k + 1])
    IN IF n = 0 THEN NaN ELSE DigitsValue(str, n)

\* One entry of NetworkSettings.Ports[key].
Binding(hostIp, hostPort) == [HostIp |-> hostIp, HostPort |-> hostPort]

\* NetworkSettings.Ports of a container that is not running: {}.
NoPorts == <<>>

\* NetworkSettings.Ports an inspect of a running container of that name may
\* report: the binding the create request asks for, and what a container made
\* otherwise (another version, by hand) can have instead.
PortTables ==
    {[k \in {"1080/tcp"} |-> <<Binding("127.0.0.1", <<"3", "2", "7", "6", "8">>)>>],
     [k \in {"1080/tcp"} |-> <<Binding("0.0.0.0", <<"8", "0">>),
                               Binding("127.0.0.1", <<"3", "2", "7", "6", "9">>)>>],
     [k \in {"1080/tcp"} |-> <<Binding("0.0.0.0", <<"8", "0">>)>>],
     [k \in {"1080/tcp"} |-> <<>>],
     [k \in {"8000/tcp"} |-> <<Binding("127.0.0.1", <<"8", "0", "0", "0">>)>>]}

InspectedPorts(state) == IF state = "running" THEN PortTables ELSE {NoPorts}

\* container.NetworkSettings.Ports['1080/tcp'], undefined when there is no such key
PortMappings(ports) ==
    IF "1080/tcp" \in DOMAIN ports THEN ports["1080/tcp"] ELSE <<>>

\* Mutant: the first binding is taken, whatever its host address.
IsAnyHost(hostIp) == TRUE

IsLocalHost(hostIp) == hostIp = "127.0.0.1"

\* _.find(portMappings, ({ HostIp }) => HostIp === '127.0.0.1'): the index of
\* the first match, 0 for undefined.
FindLocalPort(portMappings) ==
    IF \E i \in 1..Len(portMappings) : IsLocalHost(portMappings[i].HostIp)
    THEN CHOOSE i \in 1..Len(portMappings) :
             /\ IsLocalHost(portMappings[i].HostIp)
             /\ \A j \in 1..(i - 1) : ~IsLocalHost(portMappings[j].HostIp)
    ELSE 0

\* The tail of getDockerTunnelPort: throw, or return the parsed host port.
PortLookup(t, ports) ==
    LET portMappings == PortMappings(ports)
        localPort == FindLocalPort(portMappings)
    IN IF localPort = 0
       THEN /\ Settle(t, "No port mapped for Docker tunnel")
            /\ obs' = [obs EXCEPT ![t].ports = ports]
       ELSE /\ Settle(t, "port")
            /\ obs' = [obs EXCEPT ![t].ports = ports,
                                  ![t].port = parseInt(portMappings[localPort].HostPort)]

GetPortCall(t, p) ==
    /\ pc[t] = "idle"
    /\ call' = [call EXCEPT ![t] = [NoCall EXCEPT !.op = "getPort", !.port = p]]
    /\ pc' = [pc EXCEPT ![t] = "gp_inspect"]
    /\ UNCHANGED <<container, attached, imagePresent, mutexOwner, mutexQueue,
                   obs, result, inflight, nameConflict, creates>>
    /\ UNCHANGED replaceVars
    /\ UNCHANGED codecVars

\* inspect().catch(() => undefined), then the lookup or the self-heal.
GetPortInspect(t) ==
    /\ pc[t] = "gp_inspect"
    /\ LET inspected == container[getDockerTunnelContainerName(call[t].port)] IN
       IF inspected # "absent"
       THEN /\ \E ports \in InspectedPorts(inspected) : PortLookup(t, ports)
            /\ UNCHANGED <<mutexOwner, mutexQueue, call>>
       ELSE /\ Request(t)
            /\ pc' = [pc EXCEPT ![t] = "er_lock"]
            /\ call' = [call EXCEPT ![t].nested = TRUE]
            /\ obs' = [obs EXCEPT ![t].first = "failed"]
            /\ UNCHANGED result
    /\ UNCHANGED <<container, attached, imagePresent, inflight,
                   nameConflict, creates>>
    /\ UNCHANGED replaceVars
    /\ UNCHANGED codecVars

\* After ensureDockerTunnelRunning: inspect() again, this time uncaught.
GetPortReinspect(t) ==
    /\ pc[t] = "gp_reinspect"
    /\ LET inspected == container[getDockerTunnelContainerName(call[t].port)] IN
       IF inspected # "absent"
       THEN \E ports \in InspectedPorts(inspected) : PortLookup(t, ports)
       ELSE Settle(t, "inspect failed") /\ UNCHANGED obs
    /\ UNCHANGED <<container, attached, imagePresent, mutexOwner, mutexQueue,
                   call, inflight, nameConflict, creates>>
    /\ UNCHANGED replaceVars
    /\ UNCHANGED codecVars

(***************************************************************************)
(* stopDockerTunnel.  runExclusive is neither awaited nor returned: the    *)
(* locked section runs on its own after the call.                          *)
(***************************************************************************)
\* Mutant: the filter names the label only, whatever the port asked for.
MatchesAnyLabel(sel, p) == TRUE

\* The label filter: 'all' matches every tunnel container, a port its own.
MatchesLabel(sel, p) == p \in sel

\* What the caller of stopDockerTunnel gets: the promise runExclusive returns
\* is dropped, so the async function has resolved once it has asked for the lock.
DeliveredOnCall == "resolved"

StopCall(t, sel) ==
    /\ pc[t] = "idle"
    /\ call' = [call EXCEPT ![t] = [NoCall EXCEPT !.op = "stopAll", !.sel = sel]]
    /\ Request(t)
    /\ pc' = [pc EXCEPT ![t] = "sa_lock"]
    /\ obs' = [obs EXCEPT ![t].delivered = DeliveredOnCall]
    /\ UNCHANGED <<container, attached, imagePresent, result, inflight,
                   nameConflict, creates>>
    /\ UNCHANGED replaceVars
    /\ UNCHANGED codecVars

\* listContainers({all: true, filters: label}), then one kill-remove chain each.
StopList(t) ==
    /\ pc[t] = "sa_lock"
    /\ mutexOwner = t
    /\ \/ /\ Reject(t, "listContainers failed")
          /\ UNCHANGED <<inflight, obs>>
       \/ LET containers == {p \in Ports : MatchesLabel(call[t].sel, p)
                                           /\ container[p] # "absent"}
          IN /\ inflight' = inflight \cup {FanoutCall(t, "kill", p, 0) : p \in containers}
             /\ obs' = [obs EXCEPT ![t].listed = containers]
             /\ IF containers = {}
                THEN Reject(t, "ok")
                ELSE /\ pc' = [pc EXCEPT ![t] = "sa_await"]
                     /\ UNCHANGED <<mutexOwner, mutexQueue, result>>
    /\ UNCHANGED <<container, attached, imagePresent, call, nameConflict, creates>>
    /\ UNCHANGED replaceVars
    /\ UNCHANGED codecVars

\* The container of port p is gone: calls still addressed to its Id can only fail.
WithoutCallsTo(calls, p) ==
    {d \in calls : ~(d.port = p /\ d.kind \in {"connect", "disconnect"})}

\* Mutant: remove() is called only on a container whose kill() succeeded.
RemoveAfterKilledOnly(killed) == killed

\* kill().catch(() => {}) never throws, so remove() follows whatever kill() did.
RemoveFollows(killed) == TRUE

\* The kill or remove attempt of a chain is over: what stopAll saw of it.
Attempted(o, c, ok) ==
    [o EXCEPT !.kills = IF c.kind = "kill" THEN @ \cup {c.port} ELSE @,
              !.removes = IF c.kind = "remove" THEN @ \cup {c.port} ELSE @,
              !.failed = IF ok THEN @ ELSE @ \cup {<<c.kind, c.port>>}]

\* container.kill().catch(() => {}): AutoRemove takes a killed container away.
StopKill(c) ==
    /\ c \in inflight
    /\ c.kind = "kill"
    /\ \E engineOk \in BOOLEAN :
         LET ok == engineOk /\ container[c.port] = "running"
             next == (inflight \ {c}) \cup
                       (IF RemoveFollows(ok) THEN {[c EXCEPT !.kind = "remove"]} ELSE {})
         IN /\ obs' = [obs EXCEPT ![c.owner] = Attempted(@, c, ok)]
            /\ IF ok
               THEN /\ container' = [container EXCEPT ![c.port] = "absent"]
                    /\ attached' = [attached EXCEPT ![c.port] = {}]
                    /\ creates' = [creates EXCEPT ![c.port] = 0]
                    /\ inflight' = WithoutCallsTo(next, c.port)
               ELSE /\ inflight' = next
                    /\ UNCHANGED <<container, attached, creates>>
    /\ UNCHANGED <<imagePresent, mutexOwner, mutexQueue, pc, call, result,
                   nameConflict>>
    /\ UNCHANGED replaceVars
    /\ UNCHANGED codecVars

\* container.remove().catch(() => {}); Promise.all resolves after the last chain.
StopRemove(c) ==
    /\ c \in inflight
    /\ c.kind = "remove"
    /\ \E engineOk \in BOOLEAN :
         LET ok == engineOk /\ container[c.port] = "created"
             rest == inflight \ {c}
             left == IF ok THEN WithoutCallsTo(rest, c.port) ELSE rest
         IN /\ IF ok
               THEN /\ container' = [container EXCEPT ![c.port] = "absent"]
                    /\ attached' = [attached EXCEPT ![c.port] = {}]
                    /\ creates' = [creates EXCEPT ![c.port] = 0]
               ELSE UNCHANGED <<container, attached, creates>>
            /\ inflight' = left
            /\ obs' = [obs EXCEPT ![c.owner] = Attempted(@, c, ok)]
            /\ IF \E d \in rest : d.owner = c.owner
               THEN UNCHANGED <<mutexOwner, mutexQueue, pc, result>>
               ELSE Reject(c.owner, "ok")
    /\ UNCHANGED <<imagePresent, call, nameConflict>>
    /\ UNCHANGED replaceVars
    /\ UNCHANGED codecVars

Finish(t) ==
    /\ pc[t] = "done"
    /\ pc' = [pc EXCEPT ![t] = "idle"]
    /\ call' = [call EXCEPT ![t] = NoCall]
    /\ obs' = [obs EXCEPT ![t] = NoObs]
    /\ result' = [result EXCEPT ![t] = "none"]
    /\ UNCHANGED <<container, attached, imagePresent, mutexOwner, mutexQueue,
                   inflight, nameConflict, creates>>
    /\ UNCHANGED replaceVars
    /\ UNCHANGED codecVars

(***************************************************************************)
(* Env codec.  A string is a sequence of characters; an object is the      *)
(* sequence of its own <<key, value>> entries in the order Object.keys     *)
(* lists them: array-index keys ascending, then the others as created.     *)
(***************************************************************************)
\* e.indexOf('=')
IndexOfEquals(e) ==
    IF \E i \in 1..Len(e) : e[i] = "="
    THEN (CHOOSE i \in 1..Len(e) : e[i] = "=" /\ \A j \in 1..(i - 1) : e[j] # "=") - 1
    ELSE -1

\* e.slice(from, to), both counted from 0
Slice(e, from, to) == SubSeq(e, from + 1, to)

\* A property key that is a canonical array index ("0", "7", "10").
IsArrayIndex(key) ==
    /\ Len(key) > 0
    /\ \A i \in 1..Len(key) : IsDigit(key[i])
    /\ Len(key) > 1 => key[1] # "0"

\* The own data property key is created or overwritten (CreateDataProperty).
DefineProperty(object, key, value) ==
    IF \E i \in 1..Len(object) : object[i][1] = key
    THEN [i \in 1..Len(object) |->
            IF object[i][1] = key THEN <<key, value>> ELSE object[i]]
    ELSE IF IsArrayIndex(key)
         THEN LET n == Cardinality({i \in 1..Len(object) :
                          /\ IsArrayIndex(object[i][1])
                          /\ DigitsValue(object[i][1], Len(object[i][1]))
                                < DigitsValue(key, Len(key))})
              IN SubSeq(object, 1, n) \o <<<<key, value>>>>
                    \o SubSeq(object, n + 1, Len(object))
         ELSE Append(object, <<key, value>>)

ProtoKey == <<"_", "_", "p", "r", "o", "t", "o", "_", "_">>

\* result[key] = value on a plain object: '__proto__' names the inherited
\* accessor, whose setter ignores a value that is not an object.
Assign(object, key, value) ==
    IF key = ProtoKey THEN object ELSE DefineProperty(object, key, value)

\* _.fromPairs: result = {}; result[pair[0]] = pair[1] for each pair in turn.
RECURSIVE fromPairs(_)
fromPairs(pairs) ==
    IF pairs = <<>> THEN <<>>
    ELSE LET last == pairs[Len(pairs)]
         IN Assign(fromPairs(SubSeq(pairs, 1, Len(pairs) - 1)), last[1], last[2])

\* Whether envArrayToObject throws 'Env var without ='.
envArrayThrows(envArray) ==
    \E i \in 1..Len(envArray) : IndexOfEquals(envArray[i]) = -1

envArrayToObject(envArray) ==
    fromPairs([i \in 1..Len(envArray) |->
                 LET e == envArray[i]
                     equalsIndex == IndexOfEquals(e)
                 IN <<Slice(e, 0, equalsIndex), Slice(e, equalsIndex + 1, Len(e))>>])

envObjectToArray(envObject) ==
    [i \in 1..Len(envObject) |-> envObject[i][1] \o <<"=">> \o envObject[i][2]]

(***************************************************************************)
(* restartAndInjectContainer                                               *)
(***************************************************************************)
NetworkNames == {"0", "1", "app", "db"}
\* Config.Env of the snapshots tried: empty, well-formed, and with an entry without '='.
ReplaceEnvLists ==
    {<<>>, << <<"K", "=", "v">> >>, << <<"K", "v">> >>,
     << <<"K", "=", "v">>, <<"K">> >>}
EndpointConfigs == {"ip1", "ip2"}

\* Object.keys lists integer-like keys first, in ascending order.
IsIndexKey(name) == name \in {"0", "1", "2", "3"}

KeyOrder(keys) ==
    /\ \A i, j \in 1..Len(keys) : i # j => keys[i] # keys[j]
    /\ \A i, j \in 1..Len(keys) :
          i < j => /\ IsIndexKey(keys[j]) => IsIndexKey(keys[i])
                   /\ (IsIndexKey(keys[i]) /\ IsIndexKey(keys[j])) =>
                          (keys[i] = "0" /\ keys[j] = "1")

Range(f) == {f[i] : i \in DOMAIN f}

\* Object.keys(array): the indices of the array, as strings.
ObjectKeysOfArray(array) == [i \in 1..Len(array) |-> ToString(i - 1)]

\* networkDetails[networkName]
Lookup(networkDetails, networkName) ==
    IF networkName \in DOMAIN networkDetails THEN networkDetails[networkName]
                                             ELSE "undefined"

\* Mutant: the create request always carries every network.
CreateAllEndpoints(networkNames, networkDetails) ==
    {<<n, networkDetails[n]>> : n \in DOMAIN networkDetails}

\* NetworkingConfig.EndpointsConfig of the create request
CreateEndpoints(networkNames, networkDetails) ==
    IF Len(networkNames) > 1
    THEN {<<networkNames[1], networkDetails[networkNames[1]]>>}
    ELSE {<<n, networkDetails[n]>> : n \in DOMAIN networkDetails}

\* Object.keys(networkNames.slice(1)): what the reconnect loop iterates over.
ReconnectTargets(networkNames) ==
    ObjectKeysOfArray(SubSeq(networkNames, 2, Len(networkNames)))

\* Mutant: only 'no such container' is tolerated.
RemoveToleratedOnly404(statusCode) == statusCode = 404

\* The catch handler of remove(): these statuses are not thrown again.
RemoveTolerated(statusCode) == statusCode \in {409, 404, 304}

\* Mutant: a failed connect is caught as well.
SwallowsConnect(op, statusCode) ==
    \/ op = "remove" /\ RemoveTolerated(statusCode)
    \/ op = "connect"

\* Whether a failure of this engine call is caught instead of rejecting replace.
Swallows(op, statusCode) == op = "remove" /\ RemoveTolerated(statusCode)

RemoveStatuses == {409, 404, 304, 500}

Pending == [state |-> "pending", call |-> "", status |-> 0]
NoFailure == [call |-> "", status |-> 0]
EngineCall(op, net, cfg, endpoints) ==
    [op |-> op, net |-> net, cfg |-> cfg, endpoints |-> endpoints]

CodecIdle ==
    /\ codecKind = "none"
    /\ codecInput = <<>>
    /\ codecMiddle = <<>>
    /\ codecOutput = <<>>
    /\ cpc = "idle"

ReplaceIdle ==
    /\ containerDetails = [Networks |-> <<>>, Keys |-> <<>>, Env |-> <<>>]
    /\ interceptionType = "mount"
    /\ engineNetworks = {}
    /\ original = "running"
    /\ newContainer = "none"
    /\ newNetworks = {}
    /\ injected = FALSE
    /\ rpc = "idle"
    /\ rcalls = <<>>
    /\ rinflight = {}
    /\ removeStatus = 0
    /\ rfailed = NoFailure
    /\ rresult = Pending

Init == TunnelInit /\ ReplaceIdle /\ CodecIdle

\* replace is called on a running container with some snapshot.
ReplaceInit ==
    /\ TunnelInit
    /\ CodecIdle
    /\ \E n \in 0..MaxNetworks : \E keys \in [1..n -> NetworkNames] :
          /\ KeyOrder(keys)
          /\ \E details \in [Range(keys) -> EndpointConfigs] :
             \E env \in ReplaceEnvLists :
                containerDetails = [Networks |-> details, Keys |-> keys, Env |-> env]
          /\ \E others \in SUBSET (NetworkNames \ Range(keys)) :
                engineNetworks = Range(keys) \cup others
    /\ interceptionType \in {"mount", "inject"}
    /\ original = "running"
    /\ newContainer = "none"
    /\ newNetworks = {}
    /\ injected = FALSE
    /\ rpc = "inspect"
    /\ rcalls = <<>>
    /\ rinflight = {}
    /\ removeStatus = 0
    /\ rfailed = NoFailure
    /\ rresult = Pending

\* Mutant: the clone is started right after the reconnect, in either mode.
AfterReconnectStart == "start"

AfterReconnect == IF interceptionType = "inject" THEN "putArchive" ELSE "start"

\* The step that follows an awaited call in restartAndInjectContainer.
StepAfter(op) ==
    CASE op = "inspect" -> "stop"
      [] op = "stop" -> "remove"
      [] op = "remove" -> "create"
      [] op = "create" -> "reconnect"
      [] op = "connect" -> AfterReconnect
      [] op = "putArchive" -> "start"
      [] OTHER -> "done"

\* An awaited engine call failed with this status.
Fails(op, statusCode) ==
    /\ rfailed' = IF rfailed = NoFailure /\ ~(op = "remove" /\ statusCode \in {409, 404, 304})
                  THEN [call |-> op, status |-> statusCode] ELSE rfailed
    /\ IF Swallows(op, statusCode)
       THEN /\ rpc' = StepAfter(op)
            /\ rresult' = IF op = "start"
                          THEN [state |-> "resolved", call |-> "", status |-> 0]
                          ELSE rresult
       ELSE /\ rpc' = "done"
            /\ rresult' = [state |-> "rejected", call |-> op, status |-> statusCode]

Succeeds(next) ==
    /\ rpc' = next
    /\ UNCHANGED <<rfailed, rresult>>

ReplaceInspect ==
    /\ rpc = "inspect"
    /\ rcalls' = Append(rcalls, EngineCall("inspect", "", "", {}))
    /\ \/ Succeeds("stop")
       \/ Fails("inspect", 500)
    /\ UNCHANGED <<containerDetails, interceptionType, engineNetworks, original,
                   newContainer, newNetworks, injected, rinflight>>
    /\ UNCHANGED removeStatus
    /\ UNCHANGED tunnelVars
    /\ UNCHANGED codecVars

\* container.stop({ t: 1 })
ReplaceStop ==
    /\ rpc = "stop"
    /\ rcalls' = Append(rcalls, EngineCall("stop", "", "", {}))
    /\ \/ Succeeds("remove") /\ original' = "exited"
       \/ Fails("stop", 500) /\ UNCHANGED original
    /\ UNCHANGED <<containerDetails, interceptionType, engineNetworks,
                   newContainer, newNetworks, injected, rinflight>>
    /\ UNCHANGED removeStatus
    /\ UNCHANGED tunnelVars
    /\ UNCHANGED codecVars

\* container.remove().catch(...): 404 and 409 say the engine removes it itself.
ReplaceRemove ==
    /\ rpc = "remove"
    /\ rcalls' = Append(rcalls, EngineCall("remove", "", "", {}))
    /\ \/ Succeeds("create") /\ original' = "removed" /\ removeStatus' = 200
       \/ \E statusCode \in RemoveStatuses :
             /\ Fails("remove", statusCode)
             /\ removeStatus' = statusCode
             /\ original' = IF statusCode \in {404, 409} /\ original = "exited"
                            THEN "removed" ELSE original
    /\ UNCHANGED <<containerDetails, interceptionType, engineNetworks,
                   newContainer, newNetworks, injected, rinflight>>
    /\ UNCHANGED tunnelVars
    /\ UNCHANGED codecVars

\* docker.createContainer({...}); building the request parses the env list.
ReplaceCreate ==
    /\ rpc = "create"
    /\ IF envArrayThrows(containerDetails.Env)
       THEN /\ rpc' = "done"
            /\ rresult' = [state |-> "rejected", call |-> "envArrayToObject", status |-> 0]
            /\ UNCHANGED <<rcalls, rfailed, newContainer, newNetworks>>
       ELSE LET endpoints == CreateEndpoints(containerDetails.Keys,
                                             containerDetails.Networks)
            IN /\ rcalls' = Append(rcalls, EngineCall("create", "", "", endpoints))
               /\ \/ /\ original = "removed"
                     /\ Succeeds("reconnect")
                     /\ newContainer' = "created"
                     /\ newNetworks' = endpoints
                  \/ /\ Fails("create", IF original = "removed" THEN 500 ELSE 409)
                     /\ UNCHANGED <<newContainer, newNetworks>>
    /\ UNCHANGED <<containerDetails, interceptionType, engineNetworks, original,
                   injected, rinflight>>
    /\ UNCHANGED removeStatus
    /\ UNCHANGED tunnelVars
    /\ UNCHANGED codecVars

\* if (networkNames.length > 1) Promise.all(... .map(connect))
ReplaceReconnect ==
    /\ rpc = "reconnect"
    /\ LET networkDetails == containerDetails.Networks
           networkNames == containerDetails.Keys
           targets == IF Len(networkNames) > 1 THEN ReconnectTargets(networkNames)
                                               ELSE <<>>
           issued == [i \in 1..Len(targets) |->
                        EngineCall("connect", targets[i],
                                   Lookup(networkDetails, targets[i]), {})]
       IN /\ rcalls' = rcalls \o issued
          /\ rinflight' = Range(issued)
          /\ rpc' = IF Len(targets) = 0 THEN AfterReconnect ELSE "connect"
    /\ UNCHANGED <<containerDetails, interceptionType, engineNetworks, original,
                   newContainer, newNetworks, injected, rfailed, rresult>>
    /\ UNCHANGED removeStatus
    /\ UNCHANGED tunnelVars
    /\ UNCHANGED codecVars

\* One connect settles; Promise.all rejects on the first failure.
ReplaceConnectSettle(c) ==
    /\ c \in rinflight
    /\ rinflight' = rinflight \ {c}
    /\ \/ /\ c.net \in engineNetworks
          /\ newContainer # "none"
          /\ \A a \in newNetworks : a[1] # c.net
          /\ newNetworks' = newNetworks \cup {<<c.net, c.cfg>>}
          /\ IF rpc = "connect" /\ rinflight = {c}
             THEN Succeeds(AfterReconnect)
             ELSE UNCHANGED <<rpc, rfailed, rresult>>
       \/ /\ UNCHANGED newNetworks
          /\ IF rpc = "connect"
             THEN Fails("connect", IF c.net \in engineNetworks THEN 500 ELSE 404)
             ELSE UNCHANGED <<rpc, rfailed, rresult>>
    /\ UNCHANGED <<containerDetails, interceptionType, engineNetworks, original,
                   newContainer, injected, rcalls>>
    /\ UNCHANGED removeStatus
    /\ UNCHANGED tunnelVars
    /\ UNCHANGED codecVars

\* newContainer.putArchive(packInterceptionFiles(certContent), { path: '/' })
ReplacePutArchive ==
    /\ rpc = "putArchive"
    /\ rcalls' = Append(rcalls, EngineCall("putArchive", "", "", {}))
    /\ \/ Succeeds("start") /\ injected' = TRUE
       \/ Fails("putArchive", 500) /\ UNCHANGED injected
    /\ UNCHANGED <<containerDetails, interceptionType, engineNetworks, original,
                   newContainer, newNetworks, rinflight>>
    /\ UNCHANGED removeStatus
    /\ UNCHANGED tunnelVars
    /\ UNCHANGED codecVars

\* newContainer.start()
ReplaceStart ==
    /\ rpc = "start"
    /\ rcalls' = Append(rcalls, EngineCall("start", "", "", {}))
    /\ \/ /\ rpc' = "done"
          /\ rresult' = [state |-> "resolved", call |-> "", status |-> 0]
          /\ newContainer' = "running"
          /\ UNCHANGED rfailed
       \/ Fails("start", 500) /\ UNCHANGED newContainer
    /\ UNCHANGED <<containerDetails, interceptionType, engineNetworks, original,
                   newNetworks, injected, rinflight>>
    /\ UNCHANGED removeStatus
    /\ UNCHANGED tunnelVars
    /\ UNCHANGED codecVars

ReplaceNext ==
    \/ ReplaceInspect
    \/ ReplaceStop
    \/ ReplaceRemove
    \/ ReplaceCreate
    \/ ReplaceReconnect
    \/ \E c \in rinflight : ReplaceConnectSettle(c)
    \/ ReplacePutArchive
    \/ ReplaceStart

(***************************************************************************)
(* The env codec on its own: a list is turned into a mapping and back, a   *)
(* mapping into a list and back.                                           *)
(***************************************************************************)
EnvKeys == {<<"K">>, <<"2">>, <<"1", "0">>, ProtoKey}
EnvValues == {<<"v">>, <<"a", "=", "b">>, <<>>}

\* 'K=V' strings, and one entry without '='.
EnvEntries ==
    {k \o <<"=">> \o v : k \in EnvKeys, v \in EnvValues} \cup {<<"K", "v">>}

SeqsUpTo(S, n) == UNION {[1..k -> S] : k \in 0..n}

EnvLists == SeqsUpTo(EnvEntries, MaxEnvEntries)

\* An object with these own properties, as a literal or JSON.parse builds it.
RECURSIVE ObjectOf(_)
ObjectOf(pairs) ==
    IF pairs = <<>> THEN <<>>
    ELSE LET last == pairs[Len(pairs)]
         IN DefineProperty(ObjectOf(SubSeq(pairs, 1, Len(pairs) - 1)), last[1], last[2])

EnvObjects ==
    {ObjectOf(pairs) : pairs \in {q \in SeqsUpTo(EnvKeys \X EnvValues, MaxEnvEntries) :
                                    \A i, j \in 1..Len(q) : i # j => q[i][1] # q[j][1]}}

CodecInit ==
    /\ TunnelInit
    /\ ReplaceIdle
    /\ \/ codecKind = "list" /\ codecInput \in EnvLists
       \/ codecKind = "object" /\ codecInput \in EnvObjects
    /\ codecMiddle = <<>>
    /\ codecOutput = <<>>
    /\ cpc = "first"

\* envArrayToObject is applied: to the input list, or to the list made of the
\* input mapping.
CodecToObject ==
    /\ \/ cpc = "first" /\ codecKind = "list"
       \/ cpc = "second" /\ codecKind = "object"
    /\ LET envArray == IF cpc = "first" THEN codecInput ELSE codecMiddle IN
       IF envArrayThrows(envArray)
       THEN cpc' = "threw" /\ UNCHANGED <<codecMiddle, codecOutput>>
       ELSE IF cpc = "first"
            THEN /\ codecMiddle' = envArrayToObject(envArray)
                 /\ cpc' = "second"
                 /\ UNCHANGED codecOutput
            ELSE /\ codecOutput' = envArrayToObject(envArray)
                 /\ cpc' = "done"
                 /\ UNCHANGED codecMiddle
    /\ UNCHANGED <<codecKind, codecInput>>
    /\ UNCHANGED <<tunnelVars, replaceVars>>

\* envObjectToArray is applied: to the input mapping, or to the mapping made
\* of the input list.
CodecToArray ==
    /\ \/ cpc = "first" /\ codecKind = "object"
       \/ cpc = "second" /\ codecKind = "list"
    /\ IF cpc = "first"
       THEN /\ codecMiddle' = envObjectToArray(codecInput)
            /\ cpc' = "second"
            /\ UNCHANGED codecOutput
       ELSE /\ codecOutput' = envObjectToArray(codecMiddle)
            /\ cpc' = "done"
            /\ UNCHANGED codecMiddle
    /\ UNCHANGED <<codecKind, codecInput>>
    /\ UNCHANGED <<tunnelVars, replaceVars>>

CodecNext == CodecToObject \/ CodecToArray

\* One step of task t, its ports and desired sets drawn from the given sets.
TaskStep(t, ports, desiredSets) ==
    \/ PrepareCall(t)
    \/ PrepareAvailable(t)
    \/ PreparePull(t)
    \/ \E p \in ports : EnsureCall(t, p)
    \/ EnsureImage(t)
    \/ EnsureInspect(t)
    \/ EnsureCreate(t)
    \/ EnsureStart(t)
    \/ \E p \in ports, S \in desiredSets : UpdateCall(t, p, S)
    \/ UpdateInspect(t)
    \/ UpdateLockedInspect(t)
    \/ UpdateReconcile(t)
    \/ \E p \in ports : GetPortCall(t, p)
    \/ GetPortInspect(t)
    \/ GetPortReinspect(t)
    \/ \E sel \in {{p} : p \in ports} \cup {Ports} : StopCall(t, sel)
    \/ StopList(t)
    \/ Finish(t)

\* Concurrent callers.
Next ==
    \/ \E t \in Tasks : TaskStep(t, ContendedPorts, ContendedDesired)
    \/ \E c \in inflight : FanoutSettle(c)
    \/ \E c \in inflight : StopKill(c)
    \/ \E c \in inflight : StopRemove(c)

\* One caller, one operation after another, every port and every desired set.
SeqNext ==
    \/ TaskStep(1, Ports, SUBSET Networks)
    \/ \E c \in inflight : FanoutSettle(c)
    \/ \E c \in inflight : StopKill(c)
    \/ \E c \in inflight : StopRemove(c)

\* The engine as a call finds it: any tunnel container state of the contended
\* ports, left by earlier calls.
LiveInit ==
    /\ container \in [Ports -> {"absent", "created", "running"}]
    /\ \A p \in Ports \ ContendedPorts : container[p] = "absent"
    /\ attached \in [Ports -> SUBSET Networks]
    /\ \A p \in Ports : attached[p] \in IF container[p] = "absent"
                                        THEN {{}}
                                        ELSE {{DefaultBridge}, Networks}
    /\ imagePresent \in BOOLEAN
    /\ mutexOwner = 0
    /\ mutexQueue = <<>>
    /\ pc = [t \in Tasks |-> "idle"]
    /\ call = [t \in Tasks |-> NoCall]
    /\ obs = [t \in Tasks |-> NoObs]
    /\ result = [t \in Tasks |-> "none"]
    /\ inflight = {}
    /\ nameConflict = FALSE
    /\ creates = [p \in Ports |-> IF container[p] = "absent" THEN 0 ELSE 1]
    /\ ReplaceIdle
    /\ CodecIdle

\* The steps of task t's operation once it is called: its own code.
Progress(t) ==
    \/ PrepareAvailable(t)
    \/ PreparePull(t)
    \/ EnsureImage(t)
    \/ EnsureInspect(t)
    \/ EnsureCreate(t)
    \/ EnsureStart(t)
    \/ UpdateInspect(t)
    \/ UpdateLockedInspect(t)
    \/ UpdateReconcile(t)
    \/ GetPortInspect(t)
    \/ GetPortReinspect(t)
    \/ StopList(t)

\* An engine call that was fanned out returns.
EngineReturns ==
    \E c \in inflight : FanoutSettle(c) \/ StopKill(c) \/ StopRemove(c)

\* Each caller makes one call; the operations run to their end.
LiveNext ==
    \/ \E t \in Tasks : PrepareCall(t)
    \/ \E t \in Tasks : \E p \in ContendedPorts : EnsureCall(t, p)
    \/ \E t \in Tasks : \E p \in ContendedPorts, S \in ContendedDesired : UpdateCall(t, p, S)
    \/ \E t \in Tasks : \E p \in ContendedPorts : GetPortCall(t, p)
    \/ \E t \in Tasks : \E sel \in {{p} : p \in ContendedPorts} \cup {Ports} : StopCall(t, sel)
    \/ \E t \in Tasks : Progress(t)
    \/ EngineReturns

\* Every engine call returns, every awaited continuation runs, and the
\* mutex hands the lock over in arrival order.
Fairness ==
    /\ \A t \in Tasks : WF_vars(Progress(t))
    /\ WF_vars(EngineReturns)

Spec == Init /\ [][Next]_vars

LiveSpec == LiveInit /\ [][LiveNext]_vars /\ Fairness

SeqSpec == Init /\ [][SeqNext]_vars

ReplaceSpec == ReplaceInit /\ [][ReplaceNext]_vars

CodecSpec == CodecInit /\ [][CodecNext]_vars

(***************************************************************************)
(* The claims.                                                             *)
(***************************************************************************)
\* Task t has entered its locked section and issued an engine call from it.
InLockedSection(t) ==
    /\ mutexOwner = t
    /\ pc[t] \in {"er_inspect", "er_create", "er_start", "un_issue", "un_await",
                 "sa_await"}

\* C1: tunnel operations are serialised end to end: while one operation's
\* locked section is issuing engine calls, no engine call issued from another
\* operation's locked section is still in flight, a failed fan-out included.
C1_SerialisedEndToEnd ==
    \A t \in Tasks : \A c \in inflight : InLockedSection(t) => c.owner = t

\* C2: a create for port p is never issued while the container of p exists:
\* no create is refused on a name conflict, and a task about to issue the
\* create still finds the name free.
C2_OneContainerPerPort ==
    /\ ~nameConflict
    /\ \A t \in Tasks :
          pc[t] = "er_create" =>
              container[getDockerTunnelContainerName(call[t].port)] = "absent"

\* C2 witness: one caller is about to create the container of a port while
\* another ensureRunning for the same port waits for the lock.
C2_Witness ==
    \E t, u \in Tasks :
        /\ t # u
        /\ pc[t] = "er_create" /\ pc[u] = "er_lock"
        /\ call[t].port = call[u].port
        /\ u \in Range(mutexQueue)

C4_BridgeKept ==
    /\ \A c \in inflight : c.kind = "disconnect" => c.net # DefaultBridge
    /\ \A t \in Tasks : DefaultBridge \notin obs[t].disconnects
    /\ \A p \in Ports : container[p] # "absent" => DefaultBridge \in attached[p]

\* C4 witness: an update to the empty desired set disconnected something and
\* ended well, the bridge still attached.
C4_Witness ==
    \E t \in Tasks :
        /\ pc[t] = "done" /\ call[t].op = "updateNetworks" /\ result[t] = "ok"
        /\ call[t].desired = {}
        /\ obs[t].disconnects # {}
        /\ attached[call[t].port] = {DefaultBridge}

CallsOf(op) == SelectSeq(rcalls, LAMBDA e : e.op = op)

\* C5: when replace succeeds on a snapshot with N > 1 networks, the connect
\* calls target the original networks other than the first, one call each,
\* with the endpoint config of the snapshot, and the new container ends up on
\* the same networks as the original.
C5_ReconnectsOriginalNetworks ==
    LET networkNames == containerDetails.Keys
        networkDetails == containerDetails.Networks
        connects == CallsOf("connect")
    IN (rresult.state = "resolved" /\ Len(networkNames) > 1) =>
          /\ Len(connects) = Len(networkNames) - 1
          /\ {connects[i].net : i \in 1..Len(connects)}
                = {networkNames[j] : j \in 2..Len(networkNames)}
          /\ \A i \in 1..Len(connects) :
                /\ connects[i].net \in DOMAIN networkDetails
                /\ connects[i].cfg = networkDetails[connects[i].net]
          /\ {a[1] : a \in newNetworks} = Range(networkNames)

\* C6: the create request carries only the first network when the snapshot
\* has more than one and the snapshot's networks unchanged otherwise; after a
\* successful create, N - 1 connect calls are issued for N > 1 and none for
\* N <= 1.
C6_CreateAndConnectCounts ==
    LET networkNames == containerDetails.Keys
        networkDetails == containerDetails.Networks
        N == Len(networkNames)
        requests == CallsOf("create")
        connects == CallsOf("connect")
    IN /\ \A i \in 1..Len(requests) :
             requests[i].endpoints =
                 IF N > 1 THEN {<<networkNames[1], networkDetails[networkNames[1]]>>}
                          ELSE {<<n, networkDetails[n]>> : n \in DOMAIN networkDetails}
       /\ Len(connects) =
             IF newContainer # "none" /\ rpc # "reconnect" /\ N > 1 THEN N - 1 ELSE 0

\* C6 witness: a snapshot with three networks, created with one, two connects issued.
C6_Witness ==
    /\ Len(containerDetails.Keys) = 3
    /\ Len(CallsOf("create")) = 1
    /\ Len(CallsOf("connect")) = 2

\* C7: a remove() failure with status 409, 404 or 304 does not reject replace,
\* which goes on to create the new container; with any other status replace
\* rejects with that error and issues no create, connect, putArchive or start.
C7_RemoveTolerance ==
    /\ removeStatus \in {409, 404, 304} =>
          /\ ~(rresult.state = "rejected" /\ rresult.call = "remove")
          /\ \/ rpc = "create"
             \/ Len(CallsOf("create")) = 1
             \/ rresult.call = "envArrayToObject"
    /\ removeStatus \notin {0, 200, 409, 404, 304} =>
          /\ rresult = [state |-> "rejected", call |-> "remove", status |-> removeStatus]
          /\ \A i \in 1..Len(rcalls) :
                rcalls[i].op \notin {"create", "connect", "putArchive", "start"}

\* C7 witness: remove failed with 404 and replace went on to start the clone.
C7_Witness ==
    /\ removeStatus = 404
    /\ rresult.state = "resolved"
    /\ newContainer = "running"

\* The place of an engine call in the sequence of restartAndInjectContainer.
StepIndex(op) ==
    CASE op = "inspect" -> 1
      [] op = "stop" -> 2
      [] op = "remove" -> 3
      [] op = "create" -> 4
      [] op = "connect" -> 5
      [] op = "putArchive" -> 6
      [] OTHER -> 7

\* C8: replace is fail-stop without rollback: when an engine call other than
\* a tolerated remove fails, replace rejects with that failure, has issued no
\* later step, has issued no step twice to restore the original, leaves the
\* original untouched by a failed stop and the clone not started.
C8_FailStop ==
    rfailed # NoFailure =>
        /\ rpc = "done"
        /\ rresult = [state |-> "rejected", call |-> rfailed.call,
                      status |-> rfailed.status]
        /\ \A i \in 1..Len(rcalls) : StepIndex(rcalls[i].op) <= StepIndex(rfailed.call)
        /\ \A op \in {"inspect", "stop", "remove", "create", "putArchive", "start"} :
              Len(CallsOf(op)) <= 1
        /\ newContainer # "running"
        /\ rfailed.call \in {"inspect", "stop"} =>
              original = "running" /\ newContainer = "none"

\* C8 witness: a connect failed after the original was removed, another
\* connect still in flight.
C8_Witness ==
    /\ rfailed.call = "connect"
    /\ rresult.state = "rejected"
    /\ original = "removed"
    /\ rinflight # {}

\* C9: ensureRunning is idempotent: at most one create is issued for a port
\* until its container is removed, a call that finds the container running
\* issues neither create nor start, and create is issued only by a call that
\* found no container.
C9_EnsureRunningIdempotent ==
    /\ \A p \in Ports : creates[p] <= 1
    /\ \A t \in Tasks :
          /\ obs[t].seen = "running" => ~obs[t].didCreate /\ ~obs[t].didStart
          /\ obs[t].didCreate => obs[t].seen = "absent"

\* C9 witness: an ensureRunning call on a running container has ended.
C9_Witness ==
    \E t \in Tasks :
        /\ pc[t] = "done" /\ call[t].op = "ensureRunning" /\ result[t] = "ok"
        /\ obs[t].seen = "running"
        /\ creates[call[t].port] = 1

\* C10: when updateNetworks issues its connect and disconnect calls the tunnel
\* container is running, and updateNetworks never fails because the container
\* is missing.
C10_RunningWhenReconciled ==
    \A t \in Tasks :
        /\ pc[t] = "un_await" => container[call[t].port] = "running"
        /\ ~(pc[t] = "done" /\ call[t].op = "updateNetworks"
                /\ result[t] = "inspect failed")

\* Whether a port table has a binding of 1080/tcp to the loopback address.
HasLoopbackMapping(ports) ==
    /\ "1080/tcp" \in DOMAIN ports
    /\ \E i \in 1..Len(ports["1080/tcp"]) : ports["1080/tcp"][i].HostIp = "127.0.0.1"

\* C11: getPort goes through ensureRunning and inspects again exactly when its
\* first inspect failed; it returns a port only from a binding of 1080/tcp
\* whose host address is 127.0.0.1, and whenever the inspected container has no
\* such binding it fails with 'No port mapped', never returning an empty value.
C11_PortOnlyFromLoopback ==
    \A t \in Tasks :
        /\ (call[t].op = "getPort" /\ pc[t] \in {"er_lock", "er_inspect", "er_create",
                                                 "er_start", "gp_reinspect"})
              => obs[t].first = "failed"
        /\ (call[t].op = "getPort" /\ pc[t] = "done") =>
              /\ obs[t].didCreate => obs[t].first = "failed"
              /\ result[t] \in {"port", "No port mapped for Docker tunnel"} =>
                    (result[t] = "port" <=> HasLoopbackMapping(obs[t].ports))
              /\ result[t] = "port" =>
                    /\ obs[t].port # NaN
                    /\ \E i \in 1..Len(obs[t].ports["1080/tcp"]) :
                          LET b == obs[t].ports["1080/tcp"][i]
                          IN b.HostIp = "127.0.0.1" /\ obs[t].port = parseInt(b.HostPort)
              /\ result[t] # "port" => obs[t].port = 0

\* C11 witness: getPort found no container, recreated it, inspected again and
\* failed on a port table that binds 1080/tcp to another address only.
C11_Witness ==
    \E t \in Tasks :
        /\ call[t].op = "getPort" /\ pc[t] = "done"
        /\ obs[t].first = "failed" /\ obs[t].didCreate
        /\ result[t] = "No port mapped for Docker tunnel"
        /\ "1080/tcp" \in DOMAIN obs[t].ports
        /\ Len(obs[t].ports["1080/tcp"]) = 1

\* The kill and remove calls of task t's stopAll that have not settled.
StopCallsInFlight(t, kind) ==
    {c.port : c \in {d \in inflight : d.owner = t /\ d.kind = kind}}

\* C12: stopAll never aborts partway: kill is attempted on every container the
\* listing returned, remove is attempted on each of them after its kill
\* attempt, whatever failed for it or for another container, the locked
\* section stays open until the last attempt is over, and no kill or remove
\* failure is raised.
C12_TeardownNeverAborts ==
    \A t \in Tasks :
        call[t].op = "stopAll" =>
            /\ obs[t].kills \cup StopCallsInFlight(t, "kill") = obs[t].listed
            /\ obs[t].removes \cup StopCallsInFlight(t, "remove") = obs[t].kills
            /\ pc[t] = "sa_await" => mutexOwner = t
            /\ pc[t] = "done" => result[t] \in {"ok", "listContainers failed"}
            /\ (pc[t] = "done" /\ result[t] = "ok") =>
                  obs[t].kills = obs[t].listed /\ obs[t].removes = obs[t].listed

\* C12 witness: a teardown of two containers ended well although the kill of
\* one and the remove of the other failed.
C12_Witness ==
    \E t \in Tasks : \E p, q \in Ports :
        /\ call[t].op = "stopAll" /\ pc[t] = "done" /\ result[t] = "ok"
        /\ p # q /\ obs[t].listed = {p, q}
        /\ <<"kill", p>> \in obs[t].failed
        /\ <<"remove", q>> \in obs[t].failed
        /\ obs[t].removes = {p, q}

\* C13: stopAll with a port lists, kills and removes only the container
\* labelled with that port; stopAll('all') lists the tunnel container of
\* every port, running or not; and a tunnel container goes away only in a
\* stopAll whose selector matches its port.
C13_LabelSelection ==
    /\ [](\A t \in Tasks : obs[t].listed \subseteq call[t].sel)
    /\ [](\A c \in inflight : c.kind \in {"kill", "remove"} => c.port \in call[c.owner].sel)
    /\ [][\A t \in Tasks :
             (pc[t] = "sa_lock" /\ pc'[t] = "sa_await") =>
                 obs'[t].listed = {p \in call[t].sel : container[p] # "absent"}]_vars
    /\ [][\A p \in Ports :
             container'[p] # container[p] /\ container'[p] = "absent" =>
                 \E t \in Tasks : /\ call[t].op = "stopAll" /\ pc[t] = "sa_await"
                                   /\ p \in call[t].sel]_vars

\* C13 witness: stopAll for one port is over, its container gone, the tunnel
\* container of the other port still running on its networks.
C13_Witness ==
    \E t \in Tasks : \E p, q \in Ports :
        /\ call[t].op = "stopAll" /\ pc[t] = "done" /\ result[t] = "ok"
        /\ call[t].sel = {p} /\ obs[t].removes = {p}
        /\ p # q
        /\ container[p] = "absent"
        /\ container[q] = "running" /\ DefaultBridge \in attached[q]

\* C15: between the locked inspect of updateNetworks and the calls computed
\* from it, the container still exists and its attachments are the ones read.
C15_ReadStillCurrent ==
    \A t \in Tasks :
        pc[t] = "un_issue" =>
            /\ container[call[t].port] # "absent"
            /\ attached[call[t].port] = obs[t].current

\* C18: when stopAll has delivered its result to the caller, the listing and
\* every kill and remove attempt are over, and a failed listing is delivered
\* as a rejection.
C18_StopAllAwaitsTeardown ==
    \A t \in Tasks :
        (call[t].op = "stopAll" /\ obs[t].delivered # "none") =>
            /\ pc[t] = "done"
            /\ StopCallsInFlight(t, "kill") \cup StopCallsInFlight(t, "remove") = {}
            /\ result[t] = "listContainers failed" => obs[t].delivered = "rejected"
            /\ result[t] = "ok" => obs[t].delivered = "resolved"

\* C16: an ensureRunning call that ended well found the container absent,
\* created-stopped or running and leaves it running; it issued create exactly
\* when it found no container and start exactly when the container it
\* inspected (found or just created) was not running.
C16_EnsureRunningStateMachine ==
    \A t \in Tasks :
        (call[t].op = "ensureRunning" /\ pc[t] = "done" /\ result[t] = "ok") =>
            /\ obs[t].seen \in {"absent", "created", "running"}
            /\ container[call[t].port] = "running"
            /\ obs[t].didCreate <=> obs[t].seen = "absent"
            /\ obs[t].didStart <=> obs[t].seen # "running"

\* C16 witness: ensureRunning found a created-stopped container and started
\* it without creating one.
C16_Witness ==
    \E t \in Tasks :
        /\ call[t].op = "ensureRunning" /\ pc[t] = "done" /\ result[t] = "ok"
        /\ obs[t].seen = "created"
        /\ ~obs[t].didCreate /\ obs[t].didStart
        /\ container[call[t].port] = "running"

\* C17: replace issues inspect, stop, remove, create, the connect calls,
\* putArchive and start in that order, each of the others at most once; start
\* is issued only after create, every connect and, in inject mode, putArchive
\* have succeeded; putArchive is never issued in mount mode and has been
\* issued exactly once when an inject-mode replace reaches start.
C17_CallOrder ==
    /\ \A i, j \in 1..Len(rcalls) :
          i < j => StepIndex(rcalls[i].op) <= StepIndex(rcalls[j].op)
    /\ \A op \in {"inspect", "stop", "remove", "create", "putArchive", "start"} :
          Len(CallsOf(op)) <= 1
    /\ Len(CallsOf("start")) = 1 =>
          /\ Len(CallsOf("create")) = 1 /\ newContainer # "none"
          /\ rinflight = {}
          /\ rfailed.call \in {"", "start"}
          /\ Cardinality(newNetworks) =
                Cardinality(CallsOf("create")[1].endpoints) + Len(CallsOf("connect"))
          /\ interceptionType = "inject" =>
                Len(CallsOf("putArchive")) = 1 /\ injected
    /\ interceptionType = "mount" => Len(CallsOf("putArchive")) = 0 /\ ~injected

\* C17 witness: an inject-mode replace with a connect call has put the
\* archive in and started the clone.
C17_Witness ==
    /\ interceptionType = "inject"
    /\ rresult.state = "resolved"
    /\ Len(CallsOf("connect")) >= 1
    /\ injected
    /\ newContainer = "running"

\* C20: a snapshot whose env list has an entry without '=' makes replace fail
\* with the malformed-entry error before stop, remove or create is issued,
\* the original container left running.
C20_MalformedEnvLeavesOriginal ==
    /\ envArrayThrows(containerDetails.Env) =>
          \A i \in 1..Len(rcalls) : rcalls[i].op \notin {"stop", "remove", "create"}
    /\ (rresult.state = "rejected" /\ rresult.call = "envArrayToObject") =>
          original = "running"

\* C19: the lock is never requested by the task that holds it and is held
\* only by a task inside a locked section, so it is released whenever a
\* section ends; and every operation that was started finishes.
C19_LockNeverStuck ==
    /\ [](\A t \in Tasks :
            /\ mutexOwner = t => t \notin Range(mutexQueue)
            /\ mutexOwner = t => pc[t] \notin {"idle", "done"}
            /\ \A i, j \in 1..Len(mutexQueue) : mutexQueue[i] = mutexQueue[j] => i = j)
    /\ \A t \in Tasks : (pc[t] # "idle") ~> (pc[t] = "done")

\* C19 witness: an updateNetworks that went through ensureRunning waits for
\* the lock a second time, behind the other caller, which holds it.
C19_Witness ==
    \E t, u \in Tasks :
        /\ t # u
        /\ call[t].op = "updateNetworks" /\ pc[t] = "un_lock" /\ obs[t].seen # "none"
        /\ mutexOwner = u
        /\ t \in Range(mutexQueue)

\* The key of a 'K=V' string: what precedes its first '='.
KeyOf(e) == SubSeq(e, 1, IndexOfEquals(e))

\* C14: the env codec round trip.  A mapping whose keys hold no '=' comes back
\* from toList then toMapping with the same entries; a list of 'K=V' strings
\* with pairwise distinct keys comes back from toMapping then toList with the
\* same strings.
C14_EnvRoundTrip ==
    cpc = "done" =>
        /\ codecKind = "object" => Range(codecOutput) = Range(codecInput)
        /\ (codecKind = "list"
               /\ \A i, j \in 1..Len(codecInput) :
                     i # j => KeyOf(codecInput[i]) # KeyOf(codecInput[j])) =>
              /\ Len(codecOutput) = Len(codecInput)
              /\ Range(codecOutput) = Range(codecInput)

====
